---- MODULE Spec2Model ----
(***************************************************************************)
(* A state-machine model of router/router/router.c, the "tap inject"       *)
(* router plugin: the diversion setup command (tap_inject), the interface  *)
(* add/del notification, the three packet nodes that share                 *)
(* tap_inject_func, and the netns event handlers that mirror OS address,   *)
(* route and link changes into the fast-path tables.                       *)
(*                                                                         *)
(* Representation choices:                                                 *)
(*  - a u32 protocol bitmask is the set of its set bit positions, so       *)
(*    `a & b` is intersection, `a | b` union and 0 the empty set;          *)
(*  - ~0 (all ones as u32) is written NONE;                                *)
(*  - a vec is a function over 0..len-1;                                   *)
(*  - `last` records the operation that has just run, its inputs, its     *)
(*    result and the calls it made on the external collaborators; it is   *)
(*    "idle" between operations (every operation runs to completion and    *)
(*    returns to its caller before the next one starts).                   *)
(***************************************************************************)
EXTENDS Integers, Sequences, FiniteSets, TLC

(* ------------------------------ bounds -------------------------------- *)

\* Fast-path interfaces have sw_if_index 0..MaxIface.
MaxIface == 1
\* Host tap names are 1..MaxNames; at most that many taps exist at once.
MaxNames == 2
\* Cap on the length of rm.tap_to_iface (the vec itself is unbounded).
MaxMap == 2
\* Cap on the calls queued for the main thread.
MaxRpc == 1
\* Cap on the packets of one frame.
MaxBatch == 1

(* ----------------------- constants of the program --------------------- *)

NONE == -1

PROTO_ARP == 0
PROTO_ICMP4 == 1
PROTO_IGMP4 == 2
PROTO_OSPF2 == 3
PROTO_TCP == 4
PROTO_UDP == 5
PROTO_N_TOTAL == 6

PROTO_BIT_ARP == {PROTO_ARP}
PROTO_BIT_ICMP4 == {PROTO_ICMP4}
PROTO_BIT_IGMP4 == {PROTO_IGMP4}
PROTO_BIT_OSPF2 == {PROTO_OSPF2}
PROTO_BIT_TCP == {PROTO_TCP}
PROTO_BIT_UDP == {PROTO_UDP}

\* protos & bit, as a truth value
Has(protos, bit) == (protos \cap bit) # {}

AllProtos == 0 .. (PROTO_N_TOTAL - 1)
Ifaces == 0 .. MaxIface
Names == 1 .. MaxNames
\* sw_if_index values vnet_tap_connect hands out for taps
TapIds == (MaxIface + 1) .. (MaxIface + MaxNames)

\* The host ifindex of the tap named n (if_nametoindex of an existing tap).
\* A sw_if_index of an interface vnet creates without a hardware interface
\* (a sub-interface): it gets no interface_add_del call.  Pool slots are
\* reused, so a tap created later can have a smaller index.
SubIfs == { MaxIface + MaxNames + 1 }
SwIndexes == Ifaces \cup SubIfs

OsIndexBase == 10
OsIndex(n) == OsIndexBase + n

\* no name given on the command line (char *name = NULL)
NULL == 0

\* The three modes of tap_inject_func, which are also the counter indices.
ERROR_INJECT_ARP == 0
ERROR_INJECT_ICMP == 1
ERROR_INJECT_CLASSIFIED == 2
Modes == {ERROR_INJECT_ARP, ERROR_INJECT_ICMP, ERROR_INJECT_CLASSIFIED}

(* The error messages of tap_inject and do_tap_connect. *)
OK == "ok"
E_NO_PROTOS == "no protocols specified"
E_NO_IFACE == "interface name is missing or invalid"
E_NO_NAME == "host interface name is missing or invalid"
E_OSPF2 == "ospf2 requires arp, icmp4, and igmp4"
E_TCP == "tcp requires arp and icmp4"
E_UDP == "udp requires arp, icmp4, and igmp4"
E_INVALID == "invalid interface"
E_CONNECT == "failed to connect tap"
E_HWADDR == "failed to set tap hw address"
E_LINK == "failed to set tap link state"
E_XC == "failed to xconnect to interface"
E_FLAGS == "vnet_sw_interface_set_flags failed"
E_NETNS == "failed to open namespace"

VARIABLES
  sw_ifs,                  \* the fast-path interfaces that exist (vnet)
  iface_to_tap,            \* rm.iface_to_tap
  iface_to_protos,         \* rm.iface_to_protos
  tap_to_iface,            \* rm.tap_to_iface
  ns_index,                \* rm.ns_index
  ip4_multicast_arc_added, \* the static latch of add_ip4_multicast_arc
  mcast_routes,            \* how often the 224.0.0.0/24 route was installed
  registered,              \* protocols with a tap-inject node registered
  taps,                    \* existing taps: sw_if_index -> host name
  diverted,                \* history: interfaces for which lines 649-650 ran
                           \* since their last interface_add_del
  if_addrs,                \* ip4_main: the addresses of each interface
  sw_flags,                \* vnet: the flags of each fast-path interface
  rpc_queue,               \* calls queued for the main thread
  main_thread,             \* the main thread between two stores to the tables
  worker,                  \* a worker thread inside the loop of a node
  whole_entries,           \* history: the entries the tables held, whole,
                           \* since the worker's frame was dispatched
  last                     \* the last operation: inputs, result, calls

setup_vars == <<iface_to_tap, iface_to_protos, tap_to_iface, ns_index,
                ip4_multicast_arc_added, mcast_routes, registered, taps,
                diverted>>
mirror_vars == <<if_addrs, sw_flags, rpc_queue>>
thread_vars == <<main_thread, worker, whole_entries>>
vars == <<sw_ifs, setup_vars, mirror_vars, thread_vars, last>>

Idle == [op |-> "idle"]
idle == last = Idle

\* A thread that is not inside an operation.
Quiet == [pc |-> 0]

\* The operation returns to its caller (the CLI, the vlib main loop, the
\* netns dispatcher); what it did stays in the tables.
op_return ==
  /\ ~idle
  /\ last' = Idle
  /\ UNCHANGED <<thread_vars, sw_ifs, setup_vars, mirror_vars>>

(* --------------------------- vec helpers ------------------------------ *)

vec_len(v) == Cardinality(DOMAIN v)

\* vec_validate(v, i): grow v to cover index i, new elements zero-filled.
vec_validate(v, i, zero) ==
  [k \in (DOMAIN v) \cup (0 .. i) |-> IF k \in DOMAIN v THEN v[k] ELSE zero]

\* vec_validate(v, i); v[i] = val  (lines 671-674)
iface_reset(v, i, zero, val) == [vec_validate(v, i, zero) EXCEPT ![i] = val]

\* vnet_tap_connect registers the tap as a hardware interface, and vnet
\* calls interface_add_del (lines 664-677) for it: both tables are made to
\* cover the tap's index.  tap is ~0 when no tap was created.
tap_interface_add(v, tap, zero, val) ==
  IF tap = NONE THEN v ELSE iface_reset(v, tap, zero, val)

\* v[i] = val without vec_validate (lines 649-650): a store to an index
\* outside the vector does not land in the vector.
vec_store(v, i, val) == IF i \in DOMAIN v THEN [v EXCEPT ![i] = val] ELSE v

(* -------------------- tap_inject: the setup command ------------------- *)

\* Lines 568-576: the three argument checks, in the order of the code.
check_args(protos, iface, name) ==
  IF protos = {} THEN E_NO_PROTOS
  ELSE IF iface = NONE THEN E_NO_IFACE
  ELSE IF name = NULL THEN E_NO_NAME
  ELSE OK

\* check_prereqs without the tcp check of lines 587-590.
check_prereqs_no_tcp(protos) ==
  IF Has(protos, PROTO_BIT_OSPF2)
     /\ (~Has(protos, PROTO_BIT_ARP) \/ ~Has(protos, PROTO_BIT_ICMP4)
         \/ ~Has(protos, PROTO_BIT_IGMP4))
  THEN E_OSPF2
  ELSE IF Has(protos, PROTO_BIT_UDP)
          /\ (~Has(protos, PROTO_BIT_ARP) \/ ~Has(protos, PROTO_BIT_ICMP4)
              \/ ~Has(protos, PROTO_BIT_IGMP4))
  THEN E_UDP
  ELSE OK

\* check_prereqs without the udp check of lines 592-599.
check_prereqs_no_udp(protos) ==
  IF Has(protos, PROTO_BIT_OSPF2)
     /\ (~Has(protos, PROTO_BIT_ARP) \/ ~Has(protos, PROTO_BIT_ICMP4)
         \/ ~Has(protos, PROTO_BIT_IGMP4))
  THEN E_OSPF2
  ELSE IF Has(protos, PROTO_BIT_TCP)
          /\ (~Has(protos, PROTO_BIT_ARP) \/ ~Has(protos, PROTO_BIT_ICMP4))
  THEN E_TCP
  ELSE OK

\* check_prereqs with the udp check moved before the tcp check.
check_prereqs_udp_first(protos) ==
  IF Has(protos, PROTO_BIT_OSPF2)
     /\ (~Has(protos, PROTO_BIT_ARP) \/ ~Has(protos, PROTO_BIT_ICMP4)
         \/ ~Has(protos, PROTO_BIT_IGMP4))
  THEN E_OSPF2
  ELSE IF Has(protos, PROTO_BIT_UDP)
          /\ (~Has(protos, PROTO_BIT_ARP) \/ ~Has(protos, PROTO_BIT_ICMP4)
              \/ ~Has(protos, PROTO_BIT_IGMP4))
  THEN E_UDP
  ELSE IF Has(protos, PROTO_BIT_TCP)
          /\ (~Has(protos, PROTO_BIT_ARP) \/ ~Has(protos, PROTO_BIT_ICMP4))
  THEN E_TCP
  ELSE OK

\* Lines 578-599: the protocol prerequisites, in the order of the code.
check_prereqs(protos) ==
  IF Has(protos, PROTO_BIT_OSPF2)
     /\ (~Has(protos, PROTO_BIT_ARP) \/ ~Has(protos, PROTO_BIT_ICMP4)
         \/ ~Has(protos, PROTO_BIT_IGMP4))
  THEN E_OSPF2
  ELSE IF Has(protos, PROTO_BIT_TCP)
          /\ (~Has(protos, PROTO_BIT_ARP) \/ ~Has(protos, PROTO_BIT_ICMP4))
  THEN E_TCP
  ELSE IF Has(protos, PROTO_BIT_UDP)
          /\ (~Has(protos, PROTO_BIT_ARP) \/ ~Has(protos, PROTO_BIT_ICMP4)
              \/ ~Has(protos, PROTO_BIT_IGMP4))
  THEN E_UDP
  ELSE OK

\* Lines 568-599 as one result: the first error, or OK.
validate(protos, iface, name) ==
  IF check_args(protos, iface, name) # OK
  THEN check_args(protos, iface, name)
  ELSE check_prereqs(protos)

\* The steps of do_tap_connect and tap_inject that call out and can fail.
Steps == {"hw", "connect", "hwaddr", "link", "xc", "flags", "netns"}
ConnectSteps == {"hw", "connect", "hwaddr", "link", "xc", "flags"}

\* The sw_if_index vnet_tap_connect gives a new tap: a free pool slot.
new_tap_id == CHOOSE t \in TapIds :
                 t \notin DOMAIN taps /\ \A u \in TapIds : u < t => u \in DOMAIN taps

name_in_use(name) == \E t \in DOMAIN taps : taps[t] = name

\* do_tap_connect (lines 367-394) when the step `fail` fails ("none": no
\* step fails): the error it returns and the value left in *tap.
do_tap_connect(fail) ==
  CASE fail = "hw" -> [err |-> E_INVALID, tap |-> NONE]
    [] fail = "connect" -> [err |-> E_CONNECT, tap |-> NONE]
    [] fail = "hwaddr" -> [err |-> E_HWADDR, tap |-> new_tap_id]
    [] fail = "link" -> [err |-> E_LINK, tap |-> new_tap_id]
    [] fail = "xc" -> [err |-> E_XC, tap |-> new_tap_id]
    [] fail = "flags" -> [err |-> E_FLAGS, tap |-> new_tap_id]
    [] OTHER -> [err |-> OK, tap |-> new_tap_id]

\* if_nametoindex(name): 0 when no interface of that name exists.
if_nametoindex(name, tapset) ==
  IF \E t \in DOMAIN tapset : tapset[t] = name THEN OsIndex(name) ELSE 0

\* insert_tap_to_iface (lines 492-500): vec_add1.
insert_tap_to_iface(tap, iface) ==
  Append(tap_to_iface, [tap |-> tap, iface |-> iface])

\* Lines 628-646: the protocols for which a node is registered.
handlers_of(protos) ==
  protos \cap (PROTO_BIT_ARP \cup PROTO_BIT_ICMP4 \cup PROTO_BIT_OSPF2
               \cup PROTO_BIT_TCP \cup PROTO_BIT_UDP)

\* What `last` records of a tap_inject call.
setup_result(protos, iface, name, err, failed, tap, deleted, committed, opened) ==
  [op |-> "tap_inject", protos |-> protos, iface |-> iface, name |-> name,
   err |-> err, failed |-> failed, tap |-> tap, tap_deleted |-> deleted,
   committed |-> committed, opened |-> opened,
   \* the indexes lines 649-650 wrote outside the extent of the tables
   oob |-> IF committed
              /\ iface \notin DOMAIN tap_interface_add(iface_to_tap, tap, 0, NONE)
           THEN {iface} ELSE {}]

\* opens_netns without the test of rm.ns_index on line 609.
opens_netns_unlatched(protos) ==
  Has(protos, PROTO_BIT_ARP) \/ Has(protos, PROTO_BIT_ICMP4)

\* Lines 608-623: whether this call opens the netns subscription.
opens_netns(protos) ==
  (Has(protos, PROTO_BIT_ARP) \/ Has(protos, PROTO_BIT_ICMP4)) /\ ns_index = NONE

\* add_ip4_multicast_arc without the latch test of lines 525-526.
installs_multicast_arc_unlatched(protos) == Has(protos, PROTO_BIT_IGMP4)

\* Lines 625-626 and 525-526: whether this call installs the multicast arc
\* and its 224.0.0.0/24 route.
installs_multicast_arc(protos) ==
  Has(protos, PROTO_BIT_IGMP4) /\ ip4_multicast_arc_added = 0

\* tap_inject (lines 549-656), the whole command.
\*   fail: the first external step that fails, or "none".
tap_inject(protos, iface, name, fail) ==
  /\ IF validate(protos, iface, name) # OK
     THEN \* lines 568-599 return before any step is tried
          /\ fail = "none"
          /\ last' = setup_result(protos, iface, name,
                                  validate(protos, iface, name), "none",
                                  NONE, FALSE, FALSE, FALSE)
          /\ UNCHANGED <<thread_vars, sw_ifs, setup_vars, mirror_vars>>
     ELSE
     \* the kernel refuses a second tap of the same name: vnet_tap_connect fails
     /\ name_in_use(name) => fail \in {"hw", "connect"}
     /\ fail \notin {"hw", "connect"} => \E t \in TapIds : t \notin DOMAIN taps
     /\ fail = "netns" => opens_netns(protos)
     /\ IF do_tap_connect(fail).err # OK
        THEN \* lines 602-606: delete what was created, return the error
             /\ last' = setup_result(protos, iface, name,
                                     do_tap_connect(fail).err, fail,
                                     do_tap_connect(fail).tap,
                                     do_tap_connect(fail).tap # NONE,
                                     FALSE, FALSE)
             /\ iface_to_tap' = tap_interface_add(iface_to_tap,
                                    do_tap_connect(fail).tap, 0, NONE)
             /\ iface_to_protos' = tap_interface_add(iface_to_protos,
                                    do_tap_connect(fail).tap, {}, {})
             /\ UNCHANGED <<thread_vars, sw_ifs, tap_to_iface, ns_index,
                            ip4_multicast_arc_added, mcast_routes, registered,
                            taps, diverted, mirror_vars>>
        ELSE
        LET tap == do_tap_connect(fail).tap
            opens == opens_netns(protos)
            ns_fails == opens /\ fail = "netns"
            \* lines 617-618: the tap is deleted when netns_open fails; the
            \* error built on lines 619-620 is not returned, so the command
            \* goes on
            taps1 == IF ns_fails THEN taps ELSE taps @@ (tap :> name)
        IN
        /\ Len(tap_to_iface) < MaxMap
        /\ ns_index' = IF opens /\ ~ns_fails THEN 0 ELSE ns_index
        /\ taps' = taps1
        \* lines 625-626 and add_ip4_multicast_arc (lines 519-547)
        /\ IF installs_multicast_arc(protos)
           THEN /\ ip4_multicast_arc_added' = 1
                /\ mcast_routes' = mcast_routes + 1
           ELSE UNCHANGED <<ip4_multicast_arc_added, mcast_routes>>
        \* lines 628-646
        /\ registered' = registered \cup handlers_of(protos)
        \* lines 649-650
        /\ iface_to_tap' =
             vec_store(tap_interface_add(iface_to_tap, tap, 0, NONE), iface, tap)
        /\ iface_to_protos' =
             vec_store(tap_interface_add(iface_to_protos, tap, {}, {}), iface, protos)
        /\ diverted' = diverted \cup {iface}
        \* line 653
        /\ tap_to_iface' = insert_tap_to_iface(if_nametoindex(name, taps1), iface)
        \* line 655: return 0
        /\ last' = setup_result(protos, iface, name, OK,
                                IF ns_fails THEN fail ELSE "none",
                                tap, ns_fails, TRUE, opens /\ ~ns_fails)
        /\ UNCHANGED <<thread_vars, sw_ifs, mirror_vars>>

(* ------------------ interface_add_del (lines 664-677) ----------------- *)

interface_add_del(i, add) ==
  /\ IF add = 1 THEN i \notin sw_ifs ELSE i \in sw_ifs
  /\ sw_ifs' = IF add = 1 THEN sw_ifs \cup {i} ELSE sw_ifs \ {i}
  /\ iface_to_tap' = iface_reset(iface_to_tap, i, 0, NONE)
  /\ iface_to_protos' = iface_reset(iface_to_protos, i, {}, {})
  /\ diverted' = diverted \ {i}
  \* vnet: a new interface has no address and is down; a deleted one loses both
  /\ if_addrs' = [if_addrs EXCEPT ![i] = <<>>]
  /\ sw_flags' = [sw_flags EXCEPT ![i] = 0]
  /\ last' = [op |-> "interface_add_del", iface |-> i, add |-> add]
  /\ UNCHANGED <<thread_vars, tap_to_iface, ns_index, ip4_multicast_arc_added,
                 mcast_routes, registered, taps, rpc_queue>>

(* ------------------ the packet nodes (lines 115-257) ------------------ *)

NEXT_UNTAPPED == 0
NEXT_INJECT == 1

IP_PROTOCOL_ICMP == 1
IP_PROTOCOL_IGMP == 2
IP_PROTOCOL_TCP == 6
IP_PROTOCOL_UDP == 17
IP_PROTOCOL_OSPF == 89

ETHERNET_ARP_HARDWARE_TYPE_ethernet == 1
ETHERNET_TYPE_IP4 == 2048
ETHERNET_ARP_OPCODE_request == 1
ETHERNET_ARP_OPCODE_reply == 2
\* sizeof(ethernet_header_t)
ETHERNET_HEADER_SIZE == 14

\* IPv4 addresses are IpBits wide in the model; 2^IpBits addresses.
IpBits == 3
Pow2(n) == 2 ^ n

\* ip4_destination_matches_route: dst lies in the subnet addr/len.
ip4_destination_matches_route(dst, addr, len) ==
  (dst \div Pow2(IpBits - len)) = (addr \div Pow2(IpBits - len))

\* ip4_interface_address_matching_destination (called on lines 127-129):
\* the index in if_addrs[sw_if_index] of the first address whose subnet
\* holds dst, or 0 when there is none.
RECURSIVE first_matching(_, _, _)
first_matching(addrs, dst, k) ==
  IF k > Len(addrs) THEN 0
  ELSE IF ip4_destination_matches_route(dst, addrs[k][1], addrs[k][2]) THEN k
  ELSE first_matching(addrs, dst, k + 1)

ip4_interface_address_matching_destination(dst, sw_if_index) ==
  first_matching(if_addrs[sw_if_index], dst, 1)

\* ethernet_address_cast: the group bit of the address; 0 is unicast.
ETHERNET_ADDRESS_UNICAST == 0
ethernet_address_cast(mac) == mac % 2

\* Lines 149-151: memcmp(eth->src_address, arp sender hardware address).
src_matches_sender_ignored(b) == TRUE

src_matches_sender(b) == b.eth_src = b.sha

\* update_arp_entry (lines 115-165): the calls it makes on the address
\* resolution table, none or one vnet_arp_set_ip4_over_ethernet.
update_arp_entry(b, vlib_rx) ==
  LET k == ip4_interface_address_matching_destination(b.tip, vlib_rx)
      ifa == if_addrs[vlib_rx][k]
      if_addr == ifa[1]
  IN
  IF b.l2_type # ETHERNET_ARP_HARDWARE_TYPE_ethernet
     \/ b.l3_type # ETHERNET_TYPE_IP4 THEN <<>>
  ELSE IF k = 0 THEN <<>>
  ELSE IF ~ip4_destination_matches_route(b.sip, ifa[1], ifa[2]) THEN <<>>
  ELSE IF if_addr = b.sip THEN <<>>
  ELSE IF if_addr # b.tip THEN <<>>
  ELSE IF ~src_matches_sender(b) THEN <<>>
  ELSE IF b.sip = 0 \/ b.sip = b.tip THEN <<>>
  ELSE IF ethernet_address_cast(b.eth_dst) # ETHERNET_ADDRESS_UNICAST THEN <<>>
  ELSE << [fn |-> "vnet_arp_set_ip4_over_ethernet", sw_if_index |-> vlib_rx,
           ip4 |-> b.sip, ethernet |-> b.sha] >>

\* Lines 200-216: the protocol bit of the packet, 0 (no bit) when the
\* classified node sees another IP protocol.
proto_bit_of(b, mode) ==
  IF mode = ERROR_INJECT_CLASSIFIED
  THEN IF b.ip_proto = IP_PROTOCOL_TCP THEN PROTO_BIT_TCP
       ELSE IF b.ip_proto = IP_PROTOCOL_UDP THEN PROTO_BIT_UDP
       ELSE IF b.ip_proto = IP_PROTOCOL_OSPF THEN PROTO_BIT_OSPF2
       ELSE IF b.ip_proto = IP_PROTOCOL_IGMP THEN PROTO_BIT_IGMP4
       ELSE {}
  ELSE IF mode = ERROR_INJECT_ARP THEN PROTO_BIT_ARP
  ELSE IF mode = ERROR_INJECT_ICMP THEN PROTO_BIT_ICMP4
  ELSE {}

\* Line 230: arphdr->opcode == ntohs(ETHERNET_ARP_OPCODE_reply)
is_arp_reply_any(b) == TRUE

is_arp_reply(b) == b.opcode = ETHERNET_ARP_OPCODE_reply

\* The untapped path with the tx interface written before the decision.
untapped_tx_written(b) ==
  [next |-> NEXT_UNTAPPED, b |-> [b EXCEPT !.tx = iface_to_tap[b.rx]],
   count |-> 0, calls |-> <<>>]

\* `goto untapped` (lines 198, 218): next0 is still NEXT_UNTAPPED (line 195)
\* and lines 220-236 are skipped.
untapped(b) == [next |-> NEXT_UNTAPPED, b |-> b, count |-> 0, calls |-> <<>>]

\* Lines 192-193 index both tables with vlib_rx and test no length.  Inside
\* the extent the loads give the entries; outside it they read whatever
\* lies behind the vectors (undefined behaviour): any shadow value and any
\* protocol word, of which these are told apart by lines 197-217.
OutOfExtentLoads ==
  { [tap |-> t, protos |-> ps] :
      t \in {0, NONE, MaxIface + 1}, ps \in { {}, {PROTO_ARP}, AllProtos } }

loads_of(vlib_rx) ==
  IF vlib_rx \in DOMAIN iface_to_tap
  THEN { [tap |-> iface_to_tap[vlib_rx], protos |-> iface_to_protos[vlib_rx]] }
  ELSE OutOfExtentLoads

\* The loads of the passes 1..k of the loop on frame f.
RECURSIVE frame_loads(_, _)
frame_loads(f, k) ==
  IF k = 0 THEN { <<>> }
  ELSE { Append(r, ld) : r \in frame_loads(f, k - 1), ld \in loads_of(f[k].rx) }

\* One pass of the loop of tap_inject_func (lines 178-241) on buffer b:
\* the next node, the buffer as it leaves, what the pass adds to `count`,
\* and the address resolution calls it makes.
\*   ld: what lines 192-193 loaded, [tap, protos].
tap_inject_x1(b, mode, ld) ==
  LET vlib_rx == b.rx
      vlib_tx == ld.tap
      protos == ld.protos
  IN
  IF vlib_tx = 0 \/ vlib_tx = NONE \/ protos = {} THEN untapped(b)
  ELSE IF ~Has(protos, proto_bit_of(b, mode)) THEN untapped(b)
  ELSE [next |-> NEXT_INJECT,
        b |-> [b EXCEPT !.tx = vlib_tx,
                        !.current_data = @ - ETHERNET_HEADER_SIZE,
                        !.current_length = @ + ETHERNET_HEADER_SIZE],
        count |-> 1,
        calls |-> IF mode = ERROR_INJECT_ARP /\ is_arp_reply(b)
                  THEN update_arp_entry(b, vlib_rx) ELSE <<>>]

\* `count` incremented once for a frame instead of once for a packet.
sum_counts_per_frame(out, k) ==
  IF \E j \in 1 .. k : out[j].count > 0 THEN 1 ELSE 0

RECURSIVE sum_counts(_, _)
sum_counts(out, k) ==
  IF k = 0 THEN 0 ELSE out[k].count + sum_counts(out, k - 1)

RECURSIVE all_calls(_, _)
all_calls(out, k) ==
  IF k = 0 THEN <<>> ELSE all_calls(out, k - 1) \o out[k].calls

\* Lines 244-253: the counter of the mode.
counter_of(mode) ==
  IF mode = ERROR_INJECT_ARP THEN ERROR_INJECT_ARP
  ELSE IF mode = ERROR_INJECT_ICMP THEN ERROR_INJECT_ICMP
  ELSE ERROR_INJECT_CLASSIFIED

\* tap_inject_func (lines 167-257) on the frame f in the given mode.  The
\* tables are not written by the packet path, so each pass sees the same.
tap_inject_func(f, mode) ==
  /\ \E lds \in frame_loads(f, Len(f)) :
       LET out == [k \in 1 .. Len(f) |-> tap_inject_x1(f[k], mode, lds[k])] IN
       last' = [op |-> "tap_inject_func", mode |-> mode, frame |-> f,
                out |-> out,
                counter |-> counter_of(mode),
                count |-> sum_counts(out, Len(f)),
                calls |-> all_calls(out, Len(f)),
                n_vectors |-> Len(f),
                \* the indexes read outside the extent of the tables
                oob |-> { f[k].rx : k \in 1 .. Len(f) } \ DOMAIN iface_to_tap]
  /\ UNCHANGED <<thread_vars, sw_ifs, setup_vars, mirror_vars>>

(* --------------- the netns event handlers (lines 396-490) ------------- *)

\* The routing table whose routes are mirrored (line 428).
RT_TABLE_MAIN == 254
VNET_SW_INTERFACE_FLAG_ADMIN_UP == 1

\* The vec_foreach loops of lines 401-406, 421-426 and 456-461: the iface of
\* the first entry whose tap is the given host ifindex, ~0 when none is.
RECURSIVE scan_last(_, _, _)
scan_last(map, ifindex, k) ==
  IF k = 0 THEN NONE
  ELSE IF map[k].tap = ifindex THEN map[k].iface
  ELSE scan_last(map, ifindex, k - 1)

tap_lookup_last(ifindex) == scan_last(tap_to_iface, ifindex, Len(tap_to_iface))

RECURSIVE scan(_, _, _)
scan(map, ifindex, k) ==
  IF k > Len(map) THEN NONE
  ELSE IF map[k].tap = ifindex THEN map[k].iface
  ELSE scan(map, ifindex, k + 1)

tap_lookup(ifindex) == scan(tap_to_iface, ifindex, 1)

\* ip4_add_del_interface_address (called on lines 411-413), as vnet applies
\* it: an address that conflicts with one the interface has is refused, a
\* delete removes the address if it is there.
conflicts(addrs, ip, len) ==
  \E k \in 1 .. Len(addrs) :
     \/ ip4_destination_matches_route(ip, addrs[k][1], addrs[k][2])
     \/ ip4_destination_matches_route(addrs[k][1], ip, len)

ip4_add_del_interface_address(addrs, ip, len, is_del) ==
  IF is_del # 0
  THEN SelectSeq(addrs, LAMBDA x : x # <<ip, len>>)
  ELSE IF conflicts(addrs, ip, len) THEN addrs
  ELSE Append(addrs, <<ip, len>>)

\* add_del_addr (lines 396-414); a: [ifa_index, local, ifa_prefixlen].
add_del_addr(a, is_del) ==
  LET sw_if_index == tap_lookup(a.ifa_index) IN
  IF sw_if_index = NONE
  THEN /\ last' = [op |-> "add_del_addr", ev |-> a, is_del |-> is_del,
                   sw_if_index |-> NONE, calls |-> <<>>]
       /\ UNCHANGED <<thread_vars, sw_ifs, setup_vars, mirror_vars>>
  ELSE /\ last' = [op |-> "add_del_addr", ev |-> a, is_del |-> is_del,
                   sw_if_index |-> sw_if_index,
                   calls |-> << [fn |-> "ip4_add_del_interface_address",
                                 sw_if_index |-> sw_if_index,
                                 ip4 |-> a.local, len |-> a.ifa_prefixlen,
                                 is_del |-> is_del] >>]
       /\ if_addrs' = [if_addrs EXCEPT ![sw_if_index] =
             ip4_add_del_interface_address(@, a.local, a.ifa_prefixlen, is_del)]
       /\ UNCHANGED <<thread_vars, sw_ifs, setup_vars, sw_flags, rpc_queue>>

\* Line 428: whether the route event is mirrored.
route_wanted_any_table(sw_if_index, table) == sw_if_index # NONE

route_wanted(sw_if_index, table) ==
  ~(sw_if_index = NONE \/ table # RT_TABLE_MAIN)

\* add_del_route (lines 416-435); r: [oif, table, dst, dst_len, gateway].
add_del_route(r, is_del) ==
  LET sw_if_index == tap_lookup(r.oif) IN
  /\ last' = [op |-> "add_del_route", ev |-> r, is_del |-> is_del,
              sw_if_index |-> sw_if_index,
              calls |-> IF route_wanted(sw_if_index, r.table)
                        THEN << [fn |-> "ip4_add_del_route_next_hop",
                                 is_del |-> is_del, dst |-> r.dst,
                                 dst_len |-> r.dst_len, gateway |-> r.gateway,
                                 sw_if_index |-> sw_if_index] >>
                        ELSE <<>>]
  /\ UNCHANGED <<thread_vars, sw_ifs, setup_vars, mirror_vars>>

\* Lines 469-472: flags with ADMIN_UP set or cleared; flags is 0..3 here, so
\* bit 0 is ADMIN_UP and bit 1 stands for the other flags.
with_admin_up(flags, up) ==
  IF up THEN (flags \div 2) * 2 + VNET_SW_INTERFACE_FLAG_ADMIN_UP
  ELSE (flags \div 2) * 2

\* vl_api_rpc_call_main_thread (lines 477-478): the arguments are copied
\* into a message queued for the main thread.
vl_api_rpc_call_dropped(queue, args) == queue

vl_api_rpc_call_main_thread(queue, args) == Append(queue, args)

\* add_del_link (lines 448-479); l: [ifi_index, up].
add_del_link(l) ==
  LET sw_if_index == tap_lookup(l.ifi_index) IN
  IF sw_if_index = NONE
  THEN /\ last' = [op |-> "add_del_link", ev |-> l, sw_if_index |-> NONE,
                   calls |-> <<>>]
       /\ UNCHANGED <<thread_vars, sw_ifs, setup_vars, mirror_vars>>
  ELSE LET args == [sw_if_index |-> sw_if_index,
                    flags |-> with_admin_up(sw_flags[sw_if_index], l.up)]
       IN
       /\ Len(rpc_queue) < MaxRpc
       /\ rpc_queue' = vl_api_rpc_call_main_thread(rpc_queue, args)
       /\ last' = [op |-> "add_del_link", ev |-> l,
                   sw_if_index |-> sw_if_index, calls |-> <<>>]
       /\ UNCHANGED <<thread_vars, sw_ifs, setup_vars, if_addrs, sw_flags>>

\* set_interface_flags_callback (lines 442-446), run by the main thread on
\* the message at the head of its queue.
set_interface_flags_callback ==
  /\ rpc_queue # <<>>
  /\ sw_flags' = [sw_flags EXCEPT ![Head(rpc_queue).sw_if_index] =
                                     Head(rpc_queue).flags]
  /\ rpc_queue' = Tail(rpc_queue)
  /\ last' = [op |-> "set_interface_flags_callback", args |-> Head(rpc_queue)]
  /\ UNCHANGED <<thread_vars, sw_ifs, setup_vars, if_addrs>>

(* ------------------------------- Init --------------------------------- *)

\* vlib_plugin_register (lines 679-685) and the zeroed statics.
Init ==
  /\ sw_ifs = {}
  /\ iface_to_tap = <<>>
  /\ iface_to_protos = <<>>
  /\ tap_to_iface = <<>>
  /\ ns_index = NONE
  /\ ip4_multicast_arc_added = 0
  /\ mcast_routes = 0
  /\ registered = {}
  /\ taps = <<>>
  /\ diverted = {}
  /\ if_addrs = [i \in SwIndexes |-> <<>>]
  /\ sw_flags = [i \in SwIndexes |-> 0]
  /\ rpc_queue = <<>>
  /\ main_thread = Quiet
  /\ worker = Quiet
  /\ whole_entries = {}
  /\ last = Idle

\* The protocol lists the setup command is given in the setup specification:
\* one for each error of lines 568-599, and valid ones that differ in the
\* bits the packet nodes test.
SetupProtos ==
  { {}, {PROTO_OSPF2, PROTO_ARP}, {PROTO_TCP}, {PROTO_UDP, PROTO_ARP, PROTO_ICMP4},
    {PROTO_ARP}, {PROTO_IGMP4}, {PROTO_ARP, PROTO_ICMP4, PROTO_TCP},
    AllProtos }

tap_inject_cmd ==
  /\ idle
  /\ \E protos \in SetupProtos, iface \in sw_ifs \cup {NONE},
        name \in Names \cup {NULL}, fail \in Steps \cup {"none"} :
       tap_inject(protos, iface, name, fail)

hw_interface_add_del ==
  /\ idle
  /\ \E i \in Ifaces, add \in {0, 1} : interface_add_del(i, add)

NextSetup ==
  \/ hw_interface_add_del
  \/ tap_inject_cmd
  \/ op_return

\* The setup command, the interface notifications and nothing else.
SpecSetup == Init /\ [][NextSetup]_vars

(* ------------- the packet path on the tables the setup leaves --------- *)

\* Valid protocol lists that differ in the bits the three nodes test.
PacketProtos ==
  { {PROTO_ARP}, {PROTO_ICMP4, PROTO_IGMP4},
    {PROTO_ARP, PROTO_ICMP4, PROTO_TCP}, AllProtos }

packet_tap_inject_cmd ==
  /\ idle
  /\ \E protos \in PacketProtos, iface \in sw_ifs, name \in Names,
        fail \in {"none", "netns"} :
       tap_inject(protos, iface, name, fail)

\* Host ifindexes the netns events carry: 0, the taps', and one of a host
\* interface that is no tap.
EventIds == {0} \cup {OsIndex(n) : n \in 1 .. (MaxNames + 1)}

\* Interface addresses the host configures: two disjoint subnets and one
\* inside the second.
AddrChoices == { <<1, 1>>, <<5, 1>>, <<6, 2>> }

\* NETNS_TYPE_ADDR events (lines 484-485) with addresses drawn from choices.
addr_events(choices) ==
  \E id \in EventIds, ad \in choices, is_del \in {0, 1} :
     add_del_addr([ifa_index |-> id, local |-> ad[1],
                   ifa_prefixlen |-> ad[2]], is_del)

packet_addr_event ==
  /\ idle
  /\ addr_events({ <<1, 1>> })

\* A buffer as it enters a node: no tx interface yet, current data just
\* past the ethernet header.
Buffer(rx) ==
  [rx |-> rx, tx |-> NONE, current_data |-> ETHERNET_HEADER_SIZE,
   current_length |-> 28, ip_proto |-> 0,
   opcode |-> 0, l2_type |-> 0, l3_type |-> 0, sip |-> 0, tip |-> 0,
   sha |-> 0, eth_src |-> 0, eth_dst |-> 0]

\* An ARP reply that update_arp_entry learns on an interface whose address
\* is 1/1: sender 2, target 1, frame source = sender hardware address 2,
\* unicast destination 4.
GoodReply(rx) ==
  [Buffer(rx) EXCEPT !.opcode = ETHERNET_ARP_OPCODE_reply,
                     !.l2_type = ETHERNET_ARP_HARDWARE_TYPE_ethernet,
                     !.l3_type = ETHERNET_TYPE_IP4,
                     !.sip = 2, !.tip = 1, !.sha = 2, !.eth_src = 2,
                     !.eth_dst = 4]

\* The reply, and the replies and the request that differ from it in one field.
ArpPackets(rx) ==
  { GoodReply(rx),
    [GoodReply(rx) EXCEPT !.opcode = ETHERNET_ARP_OPCODE_request],
    [GoodReply(rx) EXCEPT !.l2_type = 6],
    [GoodReply(rx) EXCEPT !.l3_type = 2054],
    [GoodReply(rx) EXCEPT !.tip = 3],
    [GoodReply(rx) EXCEPT !.tip = 5],
    [GoodReply(rx) EXCEPT !.sip = 0],
    [GoodReply(rx) EXCEPT !.sip = 1],
    [GoodReply(rx) EXCEPT !.sip = 6],
    [GoodReply(rx) EXCEPT !.eth_src = 4],
    [GoodReply(rx) EXCEPT !.eth_dst = 1] }

\* IP protocols the classified node sees; 47 is one it has no bit for.
IpProtocols == {IP_PROTOCOL_ICMP, IP_PROTOCOL_IGMP, IP_PROTOCOL_TCP,
                IP_PROTOCOL_UDP, IP_PROTOCOL_OSPF, 47}

IpPackets(rx, protocols) ==
  { [Buffer(rx) EXCEPT !.ip_proto = p] : p \in protocols }

Frames(packets) ==
  UNION { [1 .. n -> packets] : n \in 1 .. MaxBatch }

tap_inject_arp ==
  /\ idle
  /\ \E f \in Frames(UNION {ArpPackets(rx) : rx \in sw_ifs}) :
       tap_inject_func(f, ERROR_INJECT_ARP)

tap_inject_icmp ==
  /\ idle
  /\ \E f \in Frames(UNION {IpPackets(rx, {IP_PROTOCOL_ICMP}) : rx \in sw_ifs}) :
       tap_inject_func(f, ERROR_INJECT_ICMP)

tap_inject_classified ==
  /\ idle
  /\ \E f \in Frames(UNION {IpPackets(rx, IpProtocols) : rx \in sw_ifs}) :
       tap_inject_func(f, ERROR_INJECT_CLASSIFIED)

NextPacket ==
  \/ hw_interface_add_del
  \/ packet_tap_inject_cmd
  \/ packet_addr_event
  \/ tap_inject_arp
  \/ tap_inject_icmp
  \/ tap_inject_classified
  \/ op_return

SpecPacket == Init /\ [][NextPacket]_vars

(* ------------------- the mirror of the host's changes ----------------- *)

MirrorProtos == { {PROTO_ARP} }

netns_addr_event ==
  /\ idle
  /\ addr_events({ <<1, 1>> })

mirror_tap_inject_cmd ==
  /\ idle
  /\ \E protos \in MirrorProtos, iface \in sw_ifs, name \in Names,
        fail \in {"none", "netns"} :
       tap_inject(protos, iface, name, fail)

RouteTables == {RT_TABLE_MAIN, 10}

netns_route_event ==
  /\ idle
  /\ \E id \in EventIds, table \in RouteTables, is_del \in {0, 1} :
       add_del_route([oif |-> id, table |-> table, dst |-> 4, dst_len |-> 1,
                      gateway |-> 2], is_del)

netns_link_event ==
  /\ idle
  /\ \E id \in EventIds, up \in BOOLEAN :
       add_del_link([ifi_index |-> id, up |-> up])

main_thread_rpc ==
  /\ idle
  /\ set_interface_flags_callback

NextMirror ==
  \/ hw_interface_add_del
  \/ mirror_tap_inject_cmd
  \/ netns_addr_event
  \/ netns_route_event
  \/ netns_link_event
  \/ main_thread_rpc
  \/ op_return

SpecMirror == Init /\ [][NextMirror]_vars

(* ------ the prerequisite checks on every protocol list (lines 568-599) - *)

\* The state after interface 0 was announced: interface_add_del(0, 1).
InitValidate ==
  /\ sw_ifs = {0}
  /\ iface_to_tap = (0 :> NONE)
  /\ iface_to_protos = (0 :> {})
  /\ tap_to_iface = <<>>
  /\ ns_index = NONE
  /\ ip4_multicast_arc_added = 0
  /\ mcast_routes = 0
  /\ registered = {}
  /\ taps = <<>>
  /\ diverted = {}
  /\ if_addrs = [i \in SwIndexes |-> <<>>]
  /\ sw_flags = [i \in SwIndexes |-> 0]
  /\ rpc_queue = <<>>
  /\ main_thread = Quiet
  /\ worker = Quiet
  /\ whole_entries = {}
  /\ last = Idle

any_tap_inject_cmd ==
  /\ idle
  /\ \E protos \in SUBSET AllProtos, iface \in sw_ifs \cup {NONE},
        name \in Names \cup {NULL} :
       tap_inject(protos, iface, name, "none")

NextValidate ==
  \/ any_tap_inject_cmd
  \/ op_return

SpecValidate == InitValidate /\ [][NextValidate]_vars

(* ------- update_arp_entry on every ARP packet (lines 115-165) --------- *)

\* The address lists add_del_addr events can leave on an interface: up to
\* two of AddrChoices, none conflicting with another.
AddrLists ==
  { <<>> } \cup { <<a>> : a \in AddrChoices }
  \cup { <<ac[1], ac[2]>> :
         ac \in { x \in AddrChoices \X AddrChoices :
                  ~conflicts(<<x[1]>>, x[2][1], x[2][2]) } }

\* The state after interface 0 was announced, "tap inject arp from 0 as 1"
\* succeeded, and address events for the tap were mirrored.
InitArp ==
  /\ sw_ifs = {0}
  /\ iface_to_tap = [i \in 0 .. (MaxIface + 1) |->
                       IF i = 0 THEN MaxIface + 1
                       ELSE IF i = MaxIface + 1 THEN NONE ELSE 0]
  /\ iface_to_protos = [i \in 0 .. (MaxIface + 1) |->
                          IF i = 0 THEN {PROTO_ARP} ELSE {}]
  /\ tap_to_iface = << [tap |-> OsIndex(1), iface |-> 0] >>
  /\ ns_index = 0
  /\ ip4_multicast_arc_added = 0
  /\ mcast_routes = 0
  /\ registered = {PROTO_ARP}
  /\ taps = ((MaxIface + 1) :> 1)
  /\ diverted = {0}
  /\ \E l \in AddrLists : if_addrs = [i \in SwIndexes |-> IF i = 0 THEN l ELSE <<>>]
  /\ sw_flags = [i \in SwIndexes |-> 0]
  /\ rpc_queue = <<>>
  /\ main_thread = Quiet
  /\ worker = Quiet
  /\ whole_entries = {}
  /\ last = Idle

IpAddrs == 0 .. (Pow2(IpBits) - 1)

\* Every ARP packet over the values each check of update_arp_entry tells apart.
AllArpPackets(rx) ==
  { [Buffer(rx) EXCEPT !.opcode = f[1], !.l2_type = f[2], !.l3_type = f[3],
                       !.sip = f[4], !.tip = f[5], !.sha = f[6],
                       !.eth_src = f[7], !.eth_dst = f[8]] :
    f \in {ETHERNET_ARP_OPCODE_request, ETHERNET_ARP_OPCODE_reply}
          \X {ETHERNET_ARP_HARDWARE_TYPE_ethernet, 6}
          \X {ETHERNET_TYPE_IP4, 2054}
          \X IpAddrs \X IpAddrs \X {2, 4} \X {2, 4} \X {4, 1} }

tap_inject_arp_any ==
  /\ idle
  /\ \E b \in AllArpPackets(0) : tap_inject_func(<<b>>, ERROR_INJECT_ARP)

NextArp ==
  \/ tap_inject_arp_any
  \/ op_return

SpecArp == InitArp /\ [][NextArp]_vars

(* ----------- frames of more than one packet (lines 177-241) ----------- *)

\* The longest frame of the batch specification.
MaxVectors == 2

BatchProtos == { {PROTO_ARP}, {PROTO_ARP, PROTO_ICMP4, PROTO_TCP} }

batch_tap_inject_cmd ==
  /\ idle
  /\ \E protos \in BatchProtos, iface \in sw_ifs :
       tap_inject(protos, iface, 1, "none")

BatchFrames(packets) ==
  UNION { [1 .. n -> packets] : n \in 1 .. MaxVectors }

batch_tap_inject_arp ==
  /\ idle
  /\ \E f \in BatchFrames({ GoodReply(rx) : rx \in sw_ifs }) :
       tap_inject_func(f, ERROR_INJECT_ARP)

batch_tap_inject_icmp ==
  /\ idle
  /\ \E f \in BatchFrames(UNION { IpPackets(rx, {IP_PROTOCOL_ICMP}) : rx \in sw_ifs }) :
       tap_inject_func(f, ERROR_INJECT_ICMP)

batch_tap_inject_classified ==
  /\ idle
  /\ \E f \in BatchFrames(UNION { IpPackets(rx, {IP_PROTOCOL_TCP, 47}) : rx \in sw_ifs }) :
       tap_inject_func(f, ERROR_INJECT_CLASSIFIED)

NextBatch ==
  \/ hw_interface_add_del
  \/ batch_tap_inject_cmd
  \/ batch_tap_inject_arp
  \/ batch_tap_inject_icmp
  \/ batch_tap_inject_classified
  \/ op_return

SpecBatch == Init /\ [][NextBatch]_vars

(* ------ link events while vnet changes other flags (lines 437-479) ---- *)

\* The flag of sw->flags next to ADMIN_UP (bit 1 of the 0..3 kept here).
VNET_SW_INTERFACE_FLAG_PUNT == 2

\* vnet, on the main thread, sets or clears another flag of an interface:
\* sw->flags, which line 467 reads, is not the plugin's alone.
vnet_sw_interface_other_flag ==
  /\ idle
  /\ \E i \in sw_ifs :
       /\ sw_flags' = [sw_flags EXCEPT ![i] =
             IF (@ \div VNET_SW_INTERFACE_FLAG_PUNT) % 2 = 1
             THEN @ - VNET_SW_INTERFACE_FLAG_PUNT
             ELSE @ + VNET_SW_INTERFACE_FLAG_PUNT]
       /\ last' = [op |-> "vnet_sw_interface_other_flag", iface |-> i]
  /\ UNCHANGED <<thread_vars, sw_ifs, setup_vars, if_addrs, rpc_queue>>

link_tap_inject_cmd ==
  /\ idle
  /\ \E iface \in sw_ifs, name \in Names :
       tap_inject({PROTO_ARP}, iface, name, "none")

NextLink ==
  \/ hw_interface_add_del
  \/ link_tap_inject_cmd
  \/ netns_link_event
  \/ vnet_sw_interface_other_flag
  \/ main_thread_rpc
  \/ op_return

SpecLink == Init /\ [][NextLink]_vars

(* ---- interfaces the tables do not cover (lines 191-193, 648-650) ----- *)

\* vnet creates a sub-interface: a sw_if_index without a hardware interface,
\* so interface_add_del is not called and the tables are not extended.
sw_interface_create ==
  /\ idle
  /\ \E i \in SubIfs :
       /\ i \notin sw_ifs
       /\ sw_ifs' = sw_ifs \cup {i}
       /\ last' = [op |-> "sw_interface_create", iface |-> i]
  /\ UNCHANGED <<thread_vars, setup_vars, mirror_vars>>

ExtentProtos == { {PROTO_ARP}, {PROTO_ARP, PROTO_ICMP4, PROTO_TCP} }

extent_tap_inject_cmd ==
  /\ idle
  /\ \E protos \in ExtentProtos, iface \in sw_ifs, name \in Names :
       tap_inject(protos, iface, name, "none")

\* A node runs once a setup has registered it (lines 628-646).
extent_tap_inject_arp ==
  /\ idle
  /\ PROTO_ARP \in registered
  /\ \E f \in Frames({ GoodReply(rx) : rx \in sw_ifs }) :
       tap_inject_func(f, ERROR_INJECT_ARP)

extent_tap_inject_icmp ==
  /\ idle
  /\ PROTO_ICMP4 \in registered
  /\ \E f \in Frames(UNION { IpPackets(rx, {IP_PROTOCOL_ICMP}) : rx \in sw_ifs }) :
       tap_inject_func(f, ERROR_INJECT_ICMP)

extent_tap_inject_classified ==
  /\ idle
  /\ PROTO_TCP \in registered
  /\ \E f \in Frames(UNION { IpPackets(rx, {IP_PROTOCOL_TCP, 47}) : rx \in sw_ifs }) :
       tap_inject_func(f, ERROR_INJECT_CLASSIFIED)

NextExtent ==
  \/ hw_interface_add_del
  \/ sw_interface_create
  \/ extent_tap_inject_cmd
  \/ extent_tap_inject_arp
  \/ extent_tap_inject_icmp
  \/ extent_tap_inject_classified
  \/ op_return

SpecExtent == Init /\ [][NextExtent]_vars

(* --------------------- parse_protos (lines 80-99) --------------------- *)

\* Lines 80-87: proto_strings[PROTO_N_TOTAL]; element k is the name of bit
\* k - 1.  The array has no terminating NULL element.
proto_strings == << "arp", "icmp4", "igmp4", "ospf2", "tcp", "udp" >>

\* strtok(proto_string, ","): a string is the sequence of its fields between
\* commas; strtok skips the empty ones.
strtok(proto_string) == SelectSeq(proto_string, LAMBDA t : t # "")

\* The inner loop of lines 94-96 for one token: `proto` walks the words from
\* proto_strings on until it reads a NULL word.  The words it reads after
\* the sixth are outside the array: whatever the linker put there.
RECURSIVE match_token(_, _, _)
match_token(tok, words, k) ==
  IF k > Len(words) THEN {}
  ELSE (IF tok = words[k] THEN {k - 1} ELSE {}) \cup match_token(tok, words, k + 1)

RECURSIVE parse_tokens(_, _, _)
parse_tokens(toks, words, k) ==
  IF k > Len(toks) THEN {}
  ELSE match_token(toks[k], words, 1) \cup parse_tokens(toks, words, k + 1)

\* parse_protos (lines 89-99) when the words after proto_strings, up to the
\* first NULL one, point at the strings `beyond`.
parse_protos(proto_string, beyond) ==
  parse_tokens(strtok(proto_string), proto_strings \o beyond, 1)

\* The longest protocol list, in fields.
MaxFields == 3

\* Fields of a protocol list: the six names, two other words, and the empty
\* field of two adjacent commas.
Fields == { "arp", "icmp4", "igmp4", "ospf2", "tcp", "udp", "x", "arpp", "" }

ProtoStrings == UNION { [1 .. n -> Fields] : n \in 0 .. MaxFields }

\* What the out-of-bounds read of proto_strings[6] can find: a NULL word, or
\* a word that points at some bytes.
BeyondChoices == { <<>>, << "x" >>, << "?" >> }

unformat_protos ==
  /\ idle
  /\ \E proto_string \in ProtoStrings, beyond \in BeyondChoices :
       last' = [op |-> "parse_protos", proto_string |-> proto_string,
                beyond |-> beyond,
                protos |-> parse_protos(proto_string, beyond)]
  /\ UNCHANGED <<thread_vars, sw_ifs, setup_vars, mirror_vars>>

NextParse ==
  \/ unformat_protos
  \/ op_return

SpecParse == Init /\ [][NextParse]_vars

(* -- the tables written while a worker classifies (lines 191-198, 648-650) - *)

\* The commands and callbacks of the main thread run while the workers run
\* the nodes: router.c takes no barrier and no lock, lines 649-650 and
\* 673-674 are two plain stores, and lines 192-193 are two plain loads made
\* anew for each packet of the frame.

RaceProtos == { {PROTO_ARP}, {PROTO_ICMP4} }

quiet == idle /\ main_thread = Quiet /\ worker = Quiet

\* Before any worker runs: interfaces appear and a first setup registers
\* the nodes.
race_hw_interface_add ==
  /\ quiet
  /\ \E i \in Ifaces : interface_add_del(i, 1)

race_tap_inject_cmd ==
  /\ quiet
  /\ \E protos \in RaceProtos, iface \in sw_ifs, name \in Names :
       tap_inject(protos, iface, name, "none")

\* What the tables hold for interface i.
entry_of(i) == [tap |-> iface_to_tap[i], protos |-> iface_to_protos[i]]

\* The entry e of interface i, as the history keeps it.
whole(i, e) == [iface |-> i, tap |-> e.tap, protos |-> e.protos]

\* tap_inject from line 549 to the store of line 649, when no step fails:
\* everything of the command but the store of line 650 and the insert of
\* line 653.
tap_inject_store_tap ==
  /\ idle
  /\ main_thread = Quiet
  /\ \E protos \in RaceProtos, iface \in sw_ifs \cap DOMAIN iface_to_tap,
        name \in Names :
       LET tap == do_tap_connect("none").tap IN
       /\ validate(protos, iface, name) = OK
       /\ ~name_in_use(name)
       /\ \E t \in TapIds : t \notin DOMAIN taps
       /\ Len(tap_to_iface) < MaxMap
       /\ ns_index' = IF opens_netns(protos) THEN 0 ELSE ns_index
       /\ taps' = taps @@ (tap :> name)
       /\ IF installs_multicast_arc(protos)
          THEN /\ ip4_multicast_arc_added' = 1
               /\ mcast_routes' = mcast_routes + 1
          ELSE UNCHANGED <<ip4_multicast_arc_added, mcast_routes>>
       /\ registered' = registered \cup handlers_of(protos)
       \* line 649
       /\ iface_to_tap' =
            vec_store(tap_interface_add(iface_to_tap, tap, 0, NONE), iface, tap)
       /\ iface_to_protos' = tap_interface_add(iface_to_protos, tap, {}, {})
       /\ main_thread' = [pc |-> 650, iface |-> iface, tap |-> tap,
                          protos |-> protos, name |-> name,
                          old |-> entry_of(iface)]
       /\ whole_entries' = whole_entries \cup
                          {whole(iface, [tap |-> tap, protos |-> protos])}
  /\ UNCHANGED <<sw_ifs, tap_to_iface, diverted, mirror_vars, worker, last>>

\* Lines 650-655.
tap_inject_store_protos ==
  /\ main_thread.pc = 650
  /\ iface_to_protos' =
       vec_store(iface_to_protos, main_thread.iface, main_thread.protos)
  /\ diverted' = diverted \cup {main_thread.iface}
  /\ tap_to_iface' = insert_tap_to_iface(
                       if_nametoindex(main_thread.name, taps), main_thread.iface)
  /\ main_thread' = Quiet
  /\ UNCHANGED <<sw_ifs, iface_to_tap, ns_index, ip4_multicast_arc_added,
                 mcast_routes, registered, taps, mirror_vars, worker,
                 whole_entries, last>>

\* interface_add_del for an interface that is deleted, to the store of
\* line 673 (the tables cover the index, so vec_validate moves nothing).
interface_del_store_tap ==
  /\ idle
  /\ main_thread = Quiet
  /\ \E i \in sw_ifs \cap Ifaces :
       /\ sw_ifs' = sw_ifs \ {i}
       /\ iface_to_tap' = iface_reset(iface_to_tap, i, 0, NONE)
       /\ if_addrs' = [if_addrs EXCEPT ![i] = <<>>]
       /\ sw_flags' = [sw_flags EXCEPT ![i] = 0]
       /\ main_thread' = [pc |-> 674, iface |-> i, tap |-> NONE,
                          protos |-> {}, name |-> 0, old |-> entry_of(i)]
       /\ whole_entries' = whole_entries \cup
                          {whole(i, [tap |-> NONE, protos |-> {}])}
  /\ UNCHANGED <<iface_to_protos, tap_to_iface, ns_index,
                 ip4_multicast_arc_added, mcast_routes, registered, taps,
                 diverted, rpc_queue, worker, last>>

\* Lines 674-675.
interface_del_store_protos ==
  /\ main_thread.pc = 674
  /\ iface_to_protos' = iface_reset(iface_to_protos, main_thread.iface, {}, {})
  /\ diverted' = diverted \ {main_thread.iface}
  /\ main_thread' = Quiet
  /\ UNCHANGED <<sw_ifs, iface_to_tap, tap_to_iface, ns_index,
                 ip4_multicast_arc_added, mcast_routes, registered, taps,
                 mirror_vars, worker, whole_entries, last>>

\* The ARP node is dispatched on a worker with a frame (lines 167-177).
worker_dispatch ==
  /\ idle
  /\ worker = Quiet
  /\ PROTO_ARP \in registered
  /\ \E f \in BatchFrames({ GoodReply(rx) : rx \in sw_ifs \cap Ifaces }) :
       worker' = [pc |-> 192, mode |-> ERROR_INJECT_ARP, frame |-> f,
                  vlib_tx |-> 0, loads |-> <<>>, out |-> <<>>]
  \* the entries as they are now; for the interface the main thread is
  \* between two stores for, the entry before and the entry after
  /\ whole_entries' =
       { whole(i, entry_of(i)) :
           i \in { j \in DOMAIN iface_to_tap :
                      main_thread = Quiet \/ main_thread.iface # j } }
       \cup (IF main_thread = Quiet THEN {}
             ELSE { whole(main_thread.iface, main_thread.old),
                    whole(main_thread.iface, main_thread) })
  /\ UNCHANGED <<sw_ifs, setup_vars, mirror_vars, main_thread, last>>

\* Line 192 for the next packet of the frame.
worker_load_tap ==
  /\ worker.pc = 192
  /\ worker' = [worker EXCEPT
                  !.pc = 193,
                  !.vlib_tx =
                     iface_to_tap[worker.frame[Len(worker.loads) + 1].rx]]
  /\ UNCHANGED <<sw_ifs, setup_vars, mirror_vars, main_thread,
                 whole_entries, last>>

\* Lines 193-241 for that packet: the load of the protocol word and the
\* rest of the pass, which reads none of the tables again.
worker_load_protos ==
  /\ worker.pc = 193
  /\ LET k == Len(worker.loads) + 1
         b == worker.frame[k]
         ld == [tap |-> worker.vlib_tx, protos |-> iface_to_protos[b.rx]]
     IN worker' = [worker EXCEPT
                     !.pc = IF k = Len(worker.frame) THEN 255 ELSE 192,
                     !.loads = Append(@, ld),
                     !.out = Append(@, tap_inject_x1(b, worker.mode, ld))]
  /\ UNCHANGED <<sw_ifs, setup_vars, mirror_vars, main_thread,
                 whole_entries, last>>

\* Lines 243-256: the counter and the return.
worker_return ==
  /\ worker.pc = 255
  /\ worker' = Quiet
  /\ whole_entries' = {}
  /\ UNCHANGED <<sw_ifs, setup_vars, mirror_vars, main_thread, last>>

NextRace ==
  \/ race_hw_interface_add
  \/ race_tap_inject_cmd
  \/ op_return
  \/ tap_inject_store_tap
  \/ tap_inject_store_protos
  \/ interface_del_store_tap
  \/ interface_del_store_protos
  \/ worker_dispatch
  \/ worker_load_tap
  \/ worker_load_protos
  \/ worker_return

SpecRace == Init /\ [][NextRace]_vars

(* =============================== claims =============================== *)

\* What the claims call things, stated without the operators of the model.
ShadowConfigured(i) == i \in DOMAIN iface_to_tap /\ iface_to_tap[i] # NONE

\* The protocol set of an interface; an interface the tables do not cover
\* has none.
ClaimProtos(i) == IF i \in DOMAIN iface_to_protos THEN iface_to_protos[i] ELSE {}

ClaimBit(mode, ip_proto) ==
  CASE mode = ERROR_INJECT_ARP -> {PROTO_ARP}
    [] mode = ERROR_INJECT_ICMP -> {PROTO_ICMP4}
    [] mode = ERROR_INJECT_CLASSIFIED /\ ip_proto = 6 -> {PROTO_TCP}
    [] mode = ERROR_INJECT_CLASSIFIED /\ ip_proto = 17 -> {PROTO_UDP}
    [] mode = ERROR_INJECT_CLASSIFIED /\ ip_proto = 89 -> {PROTO_OSPF2}
    [] mode = ERROR_INJECT_CLASSIFIED /\ ip_proto = 2 -> {PROTO_IGMP4}
    [] OTHER -> {}

NodeRan == last.op = "tap_inject_func"

\* C1: a packet is redirected if and only if its ingress interface has a
\* shadow and the interface's protocol set holds the packet's bit (ARP for
\* the ARP node, ICMP4 for the ICMP node, TCP/UDP/OSPF2/IGMP4 by the IP
\* protocol for the classified node, none for another protocol); a
\* redirected packet leaves with the shadow as its tx interface.
C1_RedirectIffEnabled ==
  NodeRan =>
    \A k \in 1 .. Len(last.frame) :
      LET b == last.frame[k]
          o == last.out[k]
      IN /\ (o.next = NEXT_INJECT) <=>
               (/\ ShadowConfigured(b.rx)
                /\ ClaimBit(last.mode, b.ip_proto) # {}
                /\ ClaimBit(last.mode, b.ip_proto) \subseteq ClaimProtos(b.rx))
         /\ o.next \in {NEXT_INJECT, NEXT_UNTAPPED}
         /\ o.next = NEXT_INJECT =>
              (b.rx \in DOMAIN iface_to_tap /\ o.b.tx = iface_to_tap[b.rx])

\* C2: a packet that arrives on an interface no setup has written since the
\* interface was last announced or removed takes the continue path in all
\* three nodes, whatever it holds.
C2_NoDiversionContinues ==
  NodeRan =>
    \A k \in 1 .. Len(last.frame) :
      last.frame[k].rx \notin diverted =>
        /\ last.out[k].next = NEXT_UNTAPPED
        /\ last.out[k].count = 0

\* C3: a setup in which an acquisition step fails returns an error, deletes
\* the shadow it created, and installs nothing: no handler, no forward
\* entry, no reverse entry.
C3_FailedSetupInstallsNothing ==
  [][ (last'.op = "tap_inject" /\ last'.failed # "none") =>
        /\ last'.err # OK
        /\ (last'.tap # NONE => last'.tap_deleted)
        /\ registered' = registered
        /\ last'.iface \in DOMAIN iface_to_tap =>
              /\ iface_to_tap'[last'.iface] = iface_to_tap[last'.iface]
              /\ iface_to_protos'[last'.iface] = iface_to_protos[last'.iface]
        /\ tap_to_iface' = tap_to_iface ]_vars

\* The configuration errors of a request, each with its message.
ClaimConfigErrors(protos, iface, name) ==
  (IF protos = {} THEN {E_NO_PROTOS} ELSE {})
  \cup (IF iface = NONE THEN {E_NO_IFACE} ELSE {})
  \cup (IF name = NULL THEN {E_NO_NAME} ELSE {})
  \cup (IF PROTO_OSPF2 \in protos
           /\ ~({PROTO_ARP, PROTO_ICMP4, PROTO_IGMP4} \subseteq protos)
        THEN {E_OSPF2} ELSE {})
  \cup (IF PROTO_TCP \in protos /\ ~({PROTO_ARP, PROTO_ICMP4} \subseteq protos)
        THEN {E_TCP} ELSE {})
  \cup (IF PROTO_UDP \in protos
           /\ ~({PROTO_ARP, PROTO_ICMP4, PROTO_IGMP4} \subseteq protos)
        THEN {E_UDP} ELSE {})

\* C4: a request with a configuration error returns the message of one of
\* its errors and changes nothing: no shadow is created, no subscription
\* opened, the multicast latch, the handlers and both tables stay.
C4_ConfigErrorMutatesNothing ==
  [][ (/\ last'.op = "tap_inject"
       /\ ClaimConfigErrors(last'.protos, last'.iface, last'.name) # {}) =>
        /\ last'.err \in ClaimConfigErrors(last'.protos, last'.iface, last'.name)
        /\ last'.tap = NONE
        /\ ~last'.opened
        /\ UNCHANGED <<thread_vars, sw_ifs, setup_vars, mirror_vars>> ]_vars

\* "tcp requires arp and icmp4" was returned with a diversion installed.
C4_Witness ==
  /\ last.op = "tap_inject"
  /\ last.err = E_TCP
  /\ tap_to_iface # <<>>
  /\ diverted # {}

\* The conditions of C5 on an ARP reply b that arrived on its rx interface.
ClaimLearnable(b) ==
  /\ b.l2_type = ETHERNET_ARP_HARDWARE_TYPE_ethernet
  /\ b.l3_type = ETHERNET_TYPE_IP4
  /\ \E k \in 1 .. Len(if_addrs[b.rx]) :
        /\ if_addrs[b.rx][k][1] = b.tip
        /\ (b.sip \div (2 ^ (IpBits - if_addrs[b.rx][k][2])))
             = (b.tip \div (2 ^ (IpBits - if_addrs[b.rx][k][2])))
  /\ b.sip # b.tip
  /\ b.eth_src = b.sha
  /\ b.sip # 0
  /\ b.eth_dst % 2 = 0

\* C5: a redirected ARP reply causes exactly one upsert of (rx interface,
\* sender IP -> sender hardware address) if and only if it is Ethernet/IPv4,
\* its target IP is a local address of the rx interface whose subnet holds
\* the sender IP, the sender IP is not that address, is not zero and is not
\* the target IP, the frame source is the sender hardware address and the
\* frame destination is unicast; otherwise it causes none.
C5_ArpReplyLearnedIffValid ==
  (NodeRan /\ last.mode = ERROR_INJECT_ARP) =>
    \A k \in 1 .. Len(last.frame) :
      LET b == last.frame[k]
          o == last.out[k]
      IN (o.next = NEXT_INJECT /\ b.opcode = ETHERNET_ARP_OPCODE_reply) =>
           o.calls = IF ClaimLearnable(b)
                     THEN << [fn |-> "vnet_arp_set_ip4_over_ethernet",
                              sw_if_index |-> b.rx, ip4 |-> b.sip,
                              ethernet |-> b.sha] >>
                     ELSE <<>>

\* A reply was learned on an interface that has two addresses.
C5_Witness ==
  /\ NodeRan
  /\ last.mode = ERROR_INJECT_ARP
  /\ last.out[1].next = NEXT_INJECT
  /\ last.frame[1].opcode = ETHERNET_ARP_OPCODE_reply
  /\ Len(last.out[1].calls) = 1
  /\ Len(if_addrs[last.frame[1].rx]) = 2
  /\ last.calls = last.out[1].calls

IsUpsert(c) == c.fn = "vnet_arp_set_ip4_over_ethernet"

ClaimHits(id) == { k \in 1 .. Len(tap_to_iface) : tap_to_iface[k].tap = id }

\* The interface of the earliest of them, NONE when there is none.
ClaimEarliest(id) ==
  IF ClaimHits(id) = {} THEN NONE
  ELSE tap_to_iface[CHOOSE k \in ClaimHits(id) :
                       \A j \in ClaimHits(id) : k <= j].iface

\* C7: an address event makes one address add/delete call, for the mapped
\* interface with the event's address, prefix length and is_delete, when
\* its ifindex has a reverse mapping; a route event makes one route
\* add/delete call with the mapped interface as egress if and only if its
\* ifindex has a reverse mapping and its table is 254; no event makes more
\* than one call.
C7_OneCallPerEvent ==
  /\ last.op = "add_del_addr" =>
        last.calls =
          IF ClaimHits(last.ev.ifa_index) # {}
          THEN << [fn |-> "ip4_add_del_interface_address",
                   sw_if_index |-> ClaimEarliest(last.ev.ifa_index),
                   ip4 |-> last.ev.local, len |-> last.ev.ifa_prefixlen,
                   is_del |-> last.is_del] >>
          ELSE <<>>
  /\ last.op = "add_del_route" =>
        last.calls =
          IF ClaimHits(last.ev.oif) # {} /\ last.ev.table = 254
          THEN << [fn |-> "ip4_add_del_route_next_hop",
                   is_del |-> last.is_del, dst |-> last.ev.dst,
                   dst_len |-> last.ev.dst_len, gateway |-> last.ev.gateway,
                   sw_if_index |-> ClaimEarliest(last.ev.oif)] >>
          ELSE <<>>

\* A route event of table 10 for a mapped tap made no call.
C7_Witness ==
  /\ last.op = "add_del_route"
  /\ ClaimHits(last.ev.oif) # {}
  /\ last.ev.oif # 0
  /\ last.ev.table = 10
  /\ last.calls = <<>>

MirrorOps == {"add_del_addr", "add_del_route", "add_del_link"}

EventId(l) ==
  CASE l.op = "add_del_addr" -> l.ev.ifa_index
    [] l.op = "add_del_route" -> l.ev.oif
    [] l.op = "add_del_link" -> l.ev.ifi_index

\* C8: the handlers resolve a host ifindex to the interface of the earliest
\* reverse entry that has it, or to none; for an ifindex that resolves to
\* none they make no call, change no table and queue nothing.
C8_EarliestMatchOrNoOp ==
  [][ last'.op \in MirrorOps =>
        /\ last'.sw_if_index = ClaimEarliest(EventId(last'))
        /\ ClaimHits(EventId(last')) = {} =>
              /\ last'.calls = <<>>
              /\ UNCHANGED <<thread_vars, sw_ifs, setup_vars, mirror_vars>> ]_vars

\* An event resolved an ifindex that two reverse entries map to different
\* interfaces.
C8_Witness ==
  /\ last.op \in MirrorOps
  /\ \E j, k \in ClaimHits(EventId(last)) :
        j < k /\ tap_to_iface[j].iface # tap_to_iface[k].iface
  /\ last.sw_if_index # NONE

\* C9: the link handler does not write the interface flags; for a mapped
\* ifindex it queues one call that carries the interface and the flags
\* value it computed, for an unmapped one it queues nothing; the flags of
\* an interface change only when the main thread runs a queued call (or
\* vnet announces or removes the interface).
C9_LinkChangeIsDeferred ==
  [][ /\ last'.op = "add_del_link" =>
           /\ sw_flags' = sw_flags
           /\ rpc_queue' =
                IF ClaimHits(last'.ev.ifi_index) = {} THEN rpc_queue
                ELSE Append(rpc_queue,
                       [sw_if_index |-> ClaimEarliest(last'.ev.ifi_index),
                        flags |->
                          IF last'.ev.up
                          THEN 2 * (sw_flags[ClaimEarliest(last'.ev.ifi_index)] \div 2) + 1
                          ELSE 2 * (sw_flags[ClaimEarliest(last'.ev.ifi_index)] \div 2)])
      /\ sw_flags' # sw_flags =>
           last'.op \in {"set_interface_flags_callback", "interface_add_del"}
      /\ last'.op = "set_interface_flags_callback" =>
           /\ rpc_queue # <<>>
           /\ sw_flags' = [sw_flags EXCEPT ![Head(rpc_queue).sw_if_index] =
                                              Head(rpc_queue).flags] ]_vars

\* A link-up event was handled: the call is queued and the flags of the
\* interface are still down.
C9_Witness ==
  /\ last.op = "add_del_link"
  /\ last.ev.up
  /\ last.sw_if_index # NONE
  /\ rpc_queue = << [sw_if_index |-> last.sw_if_index, flags |-> 1] >>
  /\ sw_flags[last.sw_if_index] = 0

\* The prerequisites of C10.
ClaimPrereqsMet(protos) ==
  /\ PROTO_OSPF2 \in protos => {PROTO_ARP, PROTO_ICMP4, PROTO_IGMP4} \subseteq protos
  /\ PROTO_TCP \in protos => {PROTO_ARP, PROTO_ICMP4} \subseteq protos
  /\ PROTO_UDP \in protos => {PROTO_ARP, PROTO_ICMP4, PROTO_IGMP4} \subseteq protos

ClaimFirstUnmet(protos) ==
  IF PROTO_OSPF2 \in protos /\ ~({PROTO_ARP, PROTO_ICMP4, PROTO_IGMP4} \subseteq protos)
  THEN E_OSPF2
  ELSE IF PROTO_TCP \in protos /\ ~({PROTO_ARP, PROTO_ICMP4} \subseteq protos)
  THEN E_TCP
  ELSE E_UDP

\* C10: for a non-empty protocol set (with the interface and the name
\* given) the setup passes validation if and only if ospf2 comes with arp,
\* icmp4 and igmp4, tcp with arp and icmp4, udp with arp, icmp4 and igmp4;
\* when it does not, the error is that of the first unmet prerequisite in
\* the order ospf2, tcp, udp.
C10_PrereqValidation ==
  (/\ last.op = "tap_inject"
   /\ last.protos # {} /\ last.iface # NONE /\ last.name # NULL) =>
     /\ (last.err \notin {E_OSPF2, E_TCP, E_UDP}) <=> ClaimPrereqsMet(last.protos)
     /\ ClaimPrereqsMet(last.protos) => (last.err = OK /\ last.committed)
     /\ ~ClaimPrereqsMet(last.protos) =>
          (last.err = ClaimFirstUnmet(last.protos) /\ ~last.committed)

\* {tcp, udp} and more with two prerequisites unmet was refused with the
\* tcp message.
C10_Witness ==
  /\ last.op = "tap_inject"
  /\ {PROTO_TCP, PROTO_UDP} \subseteq last.protos
  /\ PROTO_ARP \in last.protos
  /\ PROTO_ICMP4 \notin last.protos
  /\ last.err = E_TCP

\* C11: in every reachable state the protocol set stored for an interface
\* is empty or meets the prerequisites: ospf2 or udp come with arp, icmp4
\* and igmp4, tcp comes with arp and icmp4.
C11_StoredProtosMeetPrereqs ==
  \A i \in DOMAIN iface_to_protos :
     \/ iface_to_protos[i] = {}
     \/ /\ (PROTO_OSPF2 \in iface_to_protos[i] \/ PROTO_UDP \in iface_to_protos[i])
             => {PROTO_ARP, PROTO_ICMP4, PROTO_IGMP4} \subseteq iface_to_protos[i]
        /\ PROTO_TCP \in iface_to_protos[i]
             => {PROTO_ARP, PROTO_ICMP4} \subseteq iface_to_protos[i]

\* A set with udp is stored for one interface, and a setup with udp but
\* without igmp4 has just been refused.
C11_Witness ==
  /\ last.op = "tap_inject"
  /\ last.err = E_UDP
  /\ \E i \in DOMAIN iface_to_protos : PROTO_UDP \in iface_to_protos[i]

\* C12: in every reachable state the forward table and the reverse
\* mapping describe one pairing: an interface has a shadow in the forward
\* table (an entry that is neither ~0 nor the 0 of a fresh slot) if and only
\* if a reverse entry names the interface, and no shadow identifier is in
\* more than one reverse entry.
C12_ForwardReversePaired ==
  /\ \A i \in DOMAIN iface_to_tap :
        (iface_to_tap[i] \notin {NONE, 0}) <=>
           (\E k \in 1 .. Len(tap_to_iface) : tap_to_iface[k].iface = i)
  /\ \A j, k \in 1 .. Len(tap_to_iface) :
        j # k => tap_to_iface[j].tap # tap_to_iface[k].tap

\* C13: the event subscription is opened (netns_open is called, and
\* rm.ns_index changes) only in a setup that enables arp or icmp4 and only
\* while no subscription exists; once one exists, no step changes it, so at
\* most one is ever open.
C13_SingleSubscription ==
  [][ /\ (last'.op = "tap_inject" /\ (last'.opened \/ last'.failed = "netns")) =>
           /\ ns_index = NONE
           /\ (PROTO_ARP \in last'.protos \/ PROTO_ICMP4 \in last'.protos)
      /\ ns_index' # ns_index =>
           /\ last'.op = "tap_inject"
           /\ last'.opened
           /\ ns_index = NONE
      /\ (last'.op = "tap_inject" /\ last'.opened) => ns_index' # NONE
      /\ ns_index # NONE => ns_index' = ns_index ]_vars

\* A second diversion with arp was installed while the subscription of the
\* first existed, and opened none.
C13_Witness ==
  /\ last.op = "tap_inject"
  /\ last.committed
  /\ last.failed = "none"
  /\ PROTO_ARP \in last.protos
  /\ ~last.opened
  /\ ns_index # NONE
  /\ Len(tap_to_iface) = 2

\* C14: the multicast arc and its 224.0.0.0/24 route are installed at most
\* once: by the first setup with igmp4 that passes validation and shadow
\* creation; a later setup with igmp4 leaves them, and a setup without
\* igmp4 never installs them.
C14_MulticastArcOnce ==
  [][ /\ mcast_routes' # mcast_routes =>
           /\ last'.op = "tap_inject"
           /\ PROTO_IGMP4 \in last'.protos
           /\ last'.err = OK
           /\ last'.tap # NONE
           /\ mcast_routes = 0
           /\ mcast_routes' = 1
      /\ (/\ last'.op = "tap_inject"
          /\ PROTO_IGMP4 \in last'.protos
          /\ ClaimConfigErrors(last'.protos, last'.iface, last'.name) = {}
          /\ last'.failed \in {"none", "netns"}) => mcast_routes' = 1
      /\ mcast_routes' \in {0, 1}
      /\ ip4_multicast_arc_added' = mcast_routes' ]_vars

\* A second diversion with igmp4 was installed and the arc is there once.
C14_Witness ==
  /\ last.op = "tap_inject"
  /\ last.committed
  /\ PROTO_IGMP4 \in last.protos
  /\ \E i \in DOMAIN iface_to_protos :
        i # last.iface /\ PROTO_IGMP4 \in iface_to_protos[i]
  /\ mcast_routes = 1

\* C15: for a batch processed by one entry point, that entry point's
\* counter is raised by the number of redirected packets of the batch and
\* no other counter is, every packet gets one next-stage selector, continue
\* or redirect, and the batch size is returned.
C15_CounterPerBatch ==
  NodeRan =>
    /\ last.counter = last.mode
    /\ last.count =
         Cardinality({ k \in 1 .. Len(last.frame) : last.out[k].next = NEXT_INJECT })
    /\ DOMAIN last.out = 1 .. Len(last.frame)
    /\ \A k \in 1 .. Len(last.frame) :
          last.out[k].next \in {NEXT_UNTAPPED, NEXT_INJECT}
    /\ last.n_vectors = Len(last.frame)

\* The classified node handled a frame of two packets: the
\* first redirected (tcp), the second not (protocol 47).
C15_Witness ==
  /\ NodeRan
  /\ last.mode = ERROR_INJECT_CLASSIFIED
  /\ Len(last.frame) = 2
  /\ last.out[1].next = NEXT_INJECT
  /\ last.out[2].next = NEXT_UNTAPPED
  /\ last.count = 1

\* The bit of a recognized token, nothing for any other.
ClaimTokenBits(tok) ==
  CASE tok = "arp" -> {PROTO_ARP}
    [] tok = "icmp4" -> {PROTO_ICMP4}
    [] tok = "igmp4" -> {PROTO_IGMP4}
    [] tok = "ospf2" -> {PROTO_OSPF2}
    [] tok = "tcp" -> {PROTO_TCP}
    [] tok = "udp" -> {PROTO_UDP}
    [] OTHER -> {}

\* C16: parse returns the union of the bits of the recognized tokens of the
\* list, so order and repetition do not matter, an unrecognized token
\* changes nothing and a list without a recognized token gives the empty
\* set.
C16_ParseIsUnionOfTokens ==
  last.op = "parse_protos" =>
    last.protos =
      UNION { ClaimTokenBits(last.proto_string[k]) :
              k \in 1 .. Len(last.proto_string) }

\* C17: when the main thread applies a link change, the flags of the
\* interface differ from what they were just before only in admin-up, also
\* when another flag changed between the event and the application; no
\* other interface's flags change.
C17_OnlyAdminUpChanges ==
  [][ last'.op = "set_interface_flags_callback" =>
        /\ (sw_flags'[last'.args.sw_if_index] \div 2)
             = (sw_flags[last'.args.sw_if_index] \div 2)
        /\ \A i \in DOMAIN sw_flags :
              i # last'.args.sw_if_index => sw_flags'[i] = sw_flags[i] ]_vars

\* C18: a packet that takes the continue path leaves as it came: tx
\* interface, data offset and length unchanged, no count, no upsert; a
\* redirected packet has its tx interface set to the shadow, its data
\* offset moved back and its length extended by one ethernet header (14),
\* and nothing else changed.
C18_ContinueLeavesPacketUntouched ==
  NodeRan =>
    \A k \in 1 .. Len(last.frame) :
      LET b == last.frame[k]
          o == last.out[k]
      IN /\ o.next = NEXT_UNTAPPED =>
              /\ o.b = b
              /\ o.count = 0
              /\ o.calls = <<>>
         /\ o.next = NEXT_INJECT =>
              /\ o.b = [b EXCEPT !.tx = iface_to_tap[b.rx],
                                 !.current_data = b.current_data - 14,
                                 !.current_length = b.current_length + 14]
              /\ o.count = 1

\* A packet took the continue path on an interface that has a shadow but
\* not the packet's protocol; its tx interface is still unset.
C18_Witness ==
  /\ NodeRan
  /\ iface_to_tap[last.frame[1].rx] \in TapIds
  /\ iface_to_protos[last.frame[1].rx] # {}
  /\ last.out[1].next = NEXT_UNTAPPED
  /\ last.out[1].b.tx = NONE
  /\ last.count = 0

\* C19: for every interface index, also one beyond the extent of the
\* tables, the packet path gets (none, empty) and continues without reading
\* outside the tables, and the setup has the tables cover the index before
\* it writes the entry: no read or write is outside the extent.
C19_AccessesStayInExtent ==
  /\ NodeRan =>
        /\ last.oob = {}
        /\ \A k \in 1 .. Len(last.frame) :
              last.frame[k].rx \notin DOMAIN iface_to_tap =>
                 last.out[k].next = NEXT_UNTAPPED
  /\ (last.op = "tap_inject" /\ last.committed) =>
        /\ last.oob = {}
        /\ last.iface \in DOMAIN iface_to_tap
        /\ iface_to_tap[last.iface] = last.tap
        /\ iface_to_protos[last.iface] = last.protos

\* C20: while a setup or an interface reset runs on the main thread, a
\* worker classifies every packet against a (shadow, protocol set) pair
\* that was committed together, the one before the update or the one after
\* it, and all packets of one frame from one interface see the same pair.
C20_PairsCommittedTogether ==
  [][ /\ (worker.pc = 193 /\ worker'.pc # 193) =>
           LET k == Len(worker'.loads) IN
           [iface |-> worker.frame[k].rx, tap |-> worker'.loads[k].tap,
            protos |-> worker'.loads[k].protos] \in whole_entries
      /\ worker'.pc = 255 =>
           \A j, k \in 1 .. Len(worker'.frame) :
              worker'.frame[j].rx = worker'.frame[k].rx
                 => worker'.loads[j] = worker'.loads[k] ]_vars

====
